---- MODULE Spec2Model ----
(***************************************************************************)
(* Vulnerability lookup and caching engine of server/nvd.py, with the      *)
(* callers of check_package in server/app.py.                              *)
(*                                                                         *)
(* Text is modelled as sequences of one-character strings, so that the     *)
(* regular-expression steps of normalize_for_nvd act on characters as the  *)
(* code does.                                                              *)
(***************************************************************************)
EXTENDS Integers, Sequences, FiniteSets, TLC

(***************************************************************************)
(* Characters and words                                                    *)
(***************************************************************************)

Digits == {"0", "1", "2", "3", "4", "5", "6", "7", "8", "9"}

LowerLetters ==
    <<"a", "b", "c", "d", "e", "f", "g", "h", "i", "j", "k", "l", "m",
      "n", "o", "p", "q", "r", "s", "t", "u", "v", "w", "x", "y", "z">>

UpperLetters ==
    <<"A", "B", "C", "D", "E", "F", "G", "H", "I", "J", "K", "L", "M",
      "N", "O", "P", "Q", "R", "S", "T", "U", "V", "W", "X", "Y", "Z">>

Range(f) == {f[i] : i \in DOMAIN f}

IsDigit(c) == c \in Digits

IsLower(c) == c \in Range(LowerLetters)

\* \s of the re module, over the characters of the model
IsSpace(c) == c \in {" ", "\t"}

\* \w of the re module: letters, digits and the underscore
IsWordChar(c) == IsLower(c) \/ c \in Range(UpperLetters) \/ IsDigit(c) \/ c = "_"

\* str.lower() on one character
LowerChar(c) ==
    IF c \in Range(UpperLetters)
    THEN LowerLetters[CHOOSE i \in DOMAIN UpperLetters : UpperLetters[i] = c]
    ELSE c

\* str.lower()
Lower(s) == [i \in 1..Len(s) |-> LowerChar(s[i])]

RECURSIVE LStrip(_)
LStrip(s) == IF s # <<>> /\ IsSpace(Head(s)) THEN LStrip(Tail(s)) ELSE s

RECURSIVE RStrip(_)
RStrip(s) ==
    IF s # <<>> /\ IsSpace(s[Len(s)]) THEN RStrip(SubSeq(s, 1, Len(s) - 1)) ELSE s

\* str.strip()
Strip(s) == LStrip(RStrip(s))

\* \b of the re module at the gap before s[p] (p in 1..Len(s)+1)
WordBoundary(s, p) ==
    LET before == p > 1 /\ IsWordChar(s[p - 1])
        after  == p <= Len(s) /\ IsWordChar(s[p])
    IN  before # after

\* the literal w stands in s from position i on
HasPrefixAt(s, i, w) ==
    /\ i + Len(w) - 1 <= Len(s)
    /\ SubSeq(s, i, i + Len(w) - 1) = w

\* "sub in s" of Python, for sequences of characters
Contains(s, w) == \E i \in 1..(Len(s) + 1) : HasPrefixAt(s, i, w)

\* first position from p on whose character is not in the class, Len(s)+1 if none
RECURSIVE RunEnd(_, _, _)
RunEnd(s, p, class) ==
    IF p <= Len(s) /\ s[p] \in class THEN RunEnd(s, p + 1, class) ELSE p

(***************************************************************************)
(* normalize_for_nvd: the regular expressions, alternatives in the order   *)
(* the patterns list them (re tries them left to right)                    *)
(***************************************************************************)

ArchAlternatives ==
    << <<"x", "8", "6">>,
       <<"x", "6", "4">>,
       <<"x", "8", "6", "-", "6", "4">>,
       <<"i", "6", "8", "6">>,
       <<"a", "r", "m">>,
       <<"a", "r", "m", "6", "4">>,
       <<"a", "m", "d", "6", "4">>,
       <<"i", "a", "6", "4">>,
       <<"3", "2", "-", "b", "i", "t">>,
       <<"3", "2", "b", "i", "t">>,
       <<"6", "4", "-", "b", "i", "t">>,
       <<"6", "4", "b", "i", "t">> >>

SuffixAlternatives ==
    << <<"u", "p", "d", "a", "t", "e">>,
       <<"p", "a", "t", "c", "h">>,
       <<"r", "e", "d", "i", "s", "t", "r", "i", "b", "u", "t", "a", "b", "l", "e">>,
       <<"r", "u", "n", "t", "i", "m", "e">>,
       <<"b", "i", "n">>,
       <<"s", "r", "c">>,
       <<"s", "o", "u", "r", "c", "e">>,
       <<"a", "l", "p", "h", "a">>,
       <<"b", "e", "t", "a">>,
       <<"r", "c">>,
       <<"h", "o", "t", "f", "i", "x">> >>

\* \b(alt1|alt2|...)\b at position i: the position after the match, 0 if none
LiteralMatchEnd(s, i, alts) ==
    LET ok == {k \in DOMAIN alts :
                  /\ HasPrefixAt(s, i, alts[k])
                  /\ WordBoundary(s, i + Len(alts[k]))}
    IN  IF ~WordBoundary(s, i) \/ ok = {}
        THEN 0
        ELSE i + Len(alts[CHOOSE k \in ok : \A m \in ok : k <= m])

\* \b(x86|x64|x86-64|i686|arm|arm64|amd64|ia64|32-?bit|64-?bit)\b
ArchMatchEnd(s, i) == LiteralMatchEnd(s, i, ArchAlternatives)

\* sp\d+ followed by \b: the digits are taken greedily, and a shorter run of
\* digits ends between two digits, where there is no word boundary
SpMatchEnd(s, i) ==
    IF /\ WordBoundary(s, i)
       /\ HasPrefixAt(s, i, <<"s", "p">>)
       /\ i + 2 <= Len(s)
       /\ IsDigit(s[i + 2])
       /\ WordBoundary(s, RunEnd(s, i + 2, Digits))
    THEN RunEnd(s, i + 2, Digits)
    ELSE 0

\* \b(update|patch|redistributable|runtime|bin|src|source|alpha|beta|rc|hotfix|sp\d+)\b
SuffixMatchEnd(s, i) ==
    IF LiteralMatchEnd(s, i, SuffixAlternatives) # 0
    THEN LiteralMatchEnd(s, i, SuffixAlternatives)
    ELSE SpMatchEnd(s, i)

\* [\s_-]v?\d+[\d._]*\b : a separator, an optional v, a digit, then the longest
\* run of digits, dots and underscores that ends at a word boundary
VersionMatchEnd(s, i) ==
    LET j    == IF i + 1 <= Len(s) /\ s[i + 1] = "v" THEN i + 2 ELSE i + 1
        stop == RunEnd(s, j, Digits \cup {".", "_"})
        ends == {e \in (j + 1)..stop : WordBoundary(s, e)}
    IN  IF /\ (IsSpace(s[i]) \/ s[i] \in {"_", "-"})
           /\ j <= Len(s)
           /\ IsDigit(s[j])
           /\ ends # {}
        THEN CHOOSE e \in ends : \A f \in ends : f <= e
        ELSE 0

\* \s*\([^)]*\d+[^)]*\) : optional blanks, "(", and the text up to the first ")"
\* when that text holds a digit
ParenMatchEnd(s, i) ==
    LET open   == RunEnd(s, i, {" ", "\t"})
        closes == {m \in (open + 1)..Len(s) : s[m] = ")"}
        close  == CHOOSE m \in closes : \A n \in closes : m <= n
    IN  IF /\ open <= Len(s)
           /\ s[open] = "("
           /\ closes # {}
           /\ \E d \in (open + 1)..(close - 1) : IsDigit(s[d])
        THEN close + 1
        ELSE 0

\* re.sub(pattern, '', s) for each of the four patterns: scan from the left,
\* drop each match and go on after it
RECURSIVE SubArch(_, _)
SubArch(s, i) ==
    IF i > Len(s) THEN <<>>
    ELSE IF ArchMatchEnd(s, i) # 0
         THEN SubArch(s, ArchMatchEnd(s, i))
         ELSE <<s[i]>> \o SubArch(s, i + 1)

RECURSIVE SubSuffix(_, _)
SubSuffix(s, i) ==
    IF i > Len(s) THEN <<>>
    ELSE IF SuffixMatchEnd(s, i) # 0
         THEN SubSuffix(s, SuffixMatchEnd(s, i))
         ELSE <<s[i]>> \o SubSuffix(s, i + 1)

RECURSIVE SubVersion(_, _)
SubVersion(s, i) ==
    IF i > Len(s) THEN <<>>
    ELSE IF VersionMatchEnd(s, i) # 0
         THEN SubVersion(s, VersionMatchEnd(s, i))
         ELSE <<s[i]>> \o SubVersion(s, i + 1)

RECURSIVE SubParen(_, _)
SubParen(s, i) ==
    IF i > Len(s) THEN <<>>
    ELSE IF ParenMatchEnd(s, i) # 0
         THEN SubParen(s, ParenMatchEnd(s, i))
         ELSE <<s[i]>> \o SubParen(s, i + 1)

\* re.sub(r'[^a-z0-9\s\-_]', ' ', s) followed by s.replace('_', ' ')
CleanChar(c) ==
    IF IsLower(c) \/ IsDigit(c) \/ c = "-" THEN c
    ELSE IF IsSpace(c) THEN c
    ELSE " "

CleanSpecial(s) == [i \in 1..Len(s) |-> CleanChar(s[i])]

\* str.split(): the maximal runs of non-blank characters, in order
RECURSIVE Split(_)
Split(s) ==
    LET t == LStrip(s)
        e == RunEnd(t, 1, {c \in Range(t) : ~IsSpace(c)})
    IN  IF t = <<>> THEN <<>>
        ELSE <<SubSeq(t, 1, e - 1)>> \o Split(SubSeq(t, e, Len(t)))

\* ' '.join(words)
RECURSIVE Join(_)
Join(words) ==
    IF words = <<>> THEN <<>>
    ELSE IF Len(words) = 1 THEN words[1]
    ELSE words[1] \o <<" ">> \o Join(Tail(words))

\* str.isdigit() on a word of the cleaned name
IsDigitWord(w) == w # <<>> /\ \A i \in 1..Len(w) : IsDigit(w[i])

FirstN(seq, n) == SubSeq(seq, 1, IF Len(seq) < n THEN Len(seq) ELSE n)

\* words of one character are kept too
RECURSIVE CoreWordsAnyLength(_)
CoreWordsAnyLength(words) ==
    IF words = <<>> THEN <<>>
    ELSE IF ~IsDigitWord(Head(words))
         THEN <<Head(words)>> \o CoreWordsAnyLength(Tail(words))
         ELSE CoreWordsAnyLength(Tail(words))

\* the words of words[:4] that are longer than one character and not all digits
RECURSIVE CoreWords(_)
CoreWords(words) ==
    IF words = <<>> THEN <<>>
    ELSE IF Len(Head(words)) > 1 /\ ~IsDigitWord(Head(words))
         THEN <<Head(words)>> \o CoreWords(Tail(words))
         ELSE CoreWords(Tail(words))

\* lines 98-110: names of more than 3 words are cut down
Truncate(words) ==
    IF Len(words) > 3
    THEN IF CoreWords(FirstN(words, 4)) # <<>>
         THEN Join(FirstN(CoreWords(FirstN(words, 4)), 3))
         ELSE words[1]
    ELSE Join(words)

Unknown == <<"u", "n", "k", "n", "o", "w", "n">>

\* the name after lines 73-96
Cleaned(name) ==
    LET s1 == Strip(Lower(name))
        s2 == SubArch(s1, 1)
        s3 == SubSuffix(s2, 1)
        s4 == SubVersion(s3, 1)
        s5 == SubParen(s4, 1)
    IN  Split(CleanSpecial(s5))

\* the sentinel of line 115 is left out
NormalizeNoSentinel(name) ==
    IF name = <<>> THEN <<>> ELSE Strip(Truncate(Cleaned(name)))

normalize_for_nvd(name) ==
    IF name = <<>> THEN <<>>
    ELSE LET out == Strip(Truncate(Cleaned(name)))
         IN  IF out # <<>> THEN out ELSE Unknown

(***************************************************************************)
(* get_cpe_keywords                                                        *)
(***************************************************************************)

Jre == <<"j", "r", "e">>

GitScm == <<"g", "i", "t", "-", "s", "c", "m">>

SevenZip == <<"7", "-", "z", "i", "p">>

\* lines 133-144: at most one alias, chosen from the raw name in lower case
AliasKeywords(name, normalized) ==
    LET lower == Lower(name)
    IN  IF Contains(lower, <<"j", "a", "v", "a">>)
           /\ ~Contains(lower, <<"p", "y", "t", "h", "o", "n">>)
        THEN IF ~Contains(normalized, Jre) THEN <<Jre>> ELSE <<>>
        ELSE IF Contains(lower, <<"g", "i", "t">>)
                /\ ~Contains(normalized, <<"g", "i", "t">>)
        THEN <<GitScm>>
        ELSE IF Contains(lower, <<"7">>) /\ Contains(lower, <<"z", "i", "p">>)
        THEN IF ~Contains(normalized, <<"7", "z", "i", "p">>)
                /\ ~Contains(normalized, SevenZip)
             THEN <<SevenZip>>
             ELSE <<>>
        ELSE <<>>

\* the keyword is added to seen before it is looked up there
RECURSIVE DedupeSeenFirst(_, _)
DedupeSeenFirst(keywords, seen) ==
    LET added == seen \cup {Lower(Head(keywords))}
    IN  IF keywords = <<>> THEN <<>>
        ELSE IF Head(keywords) # <<>> /\ Lower(Head(keywords)) \notin added
             THEN <<Head(keywords)>> \o DedupeSeenFirst(Tail(keywords), added)
             ELSE DedupeSeenFirst(Tail(keywords), added)

\* lines 146-152: drop empty keywords and keywords already seen, compared in lower case
RECURSIVE Dedupe(_, _)
Dedupe(keywords, seen) ==
    IF keywords = <<>> THEN <<>>
    ELSE IF Head(keywords) # <<>> /\ Lower(Head(keywords)) \notin seen
         THEN <<Head(keywords)>>
              \o Dedupe(Tail(keywords), seen \cup {Lower(Head(keywords))})
         ELSE Dedupe(Tail(keywords), seen)

\* the first word is appended to one-word names too, and the list is
\* returned as built, cut to 3
KeywordsAsBuilt(name) ==
    LET normalized == normalize_for_nvd(name)
        words      == Split(normalized)
        keywords   == <<normalized>>
                      \o (IF Len(words) >= 1 THEN <<words[1]>> ELSE <<>>)
                      \o AliasKeywords(name, normalized)
    IN  FirstN(keywords, 3)

get_cpe_keywords(name) ==
    LET normalized == normalize_for_nvd(name)
        words      == Split(normalized)
        keywords   == <<normalized>>
                      \o (IF Len(words) > 1 THEN <<words[1]>> ELSE <<>>)
                      \o AliasKeywords(name, normalized)
    IN  FirstN(Dedupe(keywords, {}), 3)

(***************************************************************************)
(* Bounds of the model and constants of the program                        *)
(***************************************************************************)

\* NVD_REQUEST_DELAY, seconds
NVD_REQUEST_DELAY == 5

\* timedelta(hours=24), in seconds
TTL == 86400

\* max_retries of _query_nvd_api
max_retries == 3

\* list(all_cves.values())[:50]
MaxResults == 50

\* time.time() when the process starts; last_nvd_request_time starts at 0.0
StartTime == 100000

\* operations (check, rescan, force-check) begun in one run
MaxChecks == 2

\* steps of the clock between operations in one run
MaxTicks == 1

\* version=None of Python; a version that is given is a non-empty text
NoneVersion == "<None>"

Threads == {"t1", "t2"}

\* "ab cd": two keywords ("ab cd", "ab")
NameA == <<"a", "b", " ", "c", "d">>

\* "x64": normalizes to the sentinel, one keyword ("unknown")
NameB == <<"x", "6", "4">>

\* "a java": three keywords ("a java", "a", "jre")
NameJ == <<"a", " ", "j", "a", "v", "a">>

\* "": the empty name, which the handlers of app.py turn away and
\* check_package itself accepts; no keyword
NameE == <<>>

PackageNames == {NameA, NameB, NameJ, NameE}

Versions == {NoneVersion, "1"}

\* normalize_for_nvd and get_cpe_keywords are pure: their values for the
\* names of the model, computed once
NormalizedOf == [n \in PackageNames |-> normalize_for_nvd(n)]

KeywordsOf == [n \in PackageNames |-> get_cpe_keywords(n)]

\* the versions a row can hold, in the order of the index that
\* UNIQUE(package_name, version) creates (text compares bytewise, "" first)
VersionOrder == <<"", "1">>

\* the time that passes while no operation runs: a pause shorter than the
\* request delay, and pauses that bring an entry to the edge of the window
TickSteps == {1, TTL - 1, TTL}

(***************************************************************************)
(* The vulnerability source: raw records and responses                     *)
(***************************************************************************)

\* a raw record: its id and the base scores listed under each scoring scheme
RawV1 == [id |-> "CVE-1", cvssV3 |-> <<9>>, cvssV2 |-> <<5>>]

RawV2 == [id |-> "CVE-2", cvssV3 |-> <<>>, cvssV2 |-> <<4>>]

\* the id of RawV1 once more, with other scores
RawV1again == [id |-> "CVE-1", cvssV3 |-> <<>>, cvssV2 |-> <<7>>]

\* a record with no score under either scheme
RawV0 == [id |-> "CVE-0", cvssV3 |-> <<>>, cvssV2 |-> <<>>]

\* a response of one record more than the cap of line 434, all ids distinct
BigPage ==
    [i \in 1..(MaxResults + 1) |-> [id |-> ToString(i), cvssV3 |-> <<>>, cvssV2 |-> <<i>>]]

\* a response with both schemes, one scheme, none, and an id twice
MixedPage == <<RawV1, RawV2, RawV0, RawV1again>>

RawPages == {<<>>, <<RawV1>>, <<RawV1, RawV2, RawV1again>>}

\* what one session.get can end in: a 200 with a page, a 429 status, a
\* RequestException whose text does not hold "429", one whose text does, and
\* an exception that is no RequestException
Responses ==
    [kind : {"ok"}, page : RawPages]
    \cup [kind : {"429", "error", "error429", "crash"}, page : {<<>>}]

\* the version-2 score is looked at first
PreferV2(raw) ==
    IF Len(raw.cvssV2) > 0 THEN raw.cvssV2[1]
    ELSE IF Len(raw.cvssV3) > 0 THEN raw.cvssV3[1]
    ELSE 0

\* lines 359-365: the version-3 score if there is one, else the version-2 score, else 0
ParseCvss(raw) ==
    IF Len(raw.cvssV3) > 0 THEN raw.cvssV3[1]
    ELSE IF Len(raw.cvssV2) > 0 THEN raw.cvssV2[1]
    ELSE 0

\* without the "continue" of line 357 a later record of an id takes the place
\* of the earlier one
RECURSIVE MergePageOverwrite(_, _)
MergePageOverwrite(all_cves, page) ==
    IF page = <<>> THEN all_cves
    ELSE IF \E i \in DOMAIN all_cves : all_cves[i].id = Head(page).id
         THEN MergePageOverwrite(
                  [i \in DOMAIN all_cves |->
                      IF all_cves[i].id = Head(page).id
                      THEN [id |-> Head(page).id, cvss |-> ParseCvss(Head(page))]
                      ELSE all_cves[i]],
                  Tail(page))
         ELSE MergePageOverwrite(
                  Append(all_cves, [id |-> Head(page).id, cvss |-> ParseCvss(Head(page))]),
                  Tail(page))

\* lines 352-409: all_cves is a dict keyed by id, kept here in insertion order;
\* an id already present is skipped
RECURSIVE MergePage(_, _)
MergePage(all_cves, page) ==
    IF page = <<>> THEN all_cves
    ELSE IF \E i \in DOMAIN all_cves : all_cves[i].id = Head(page).id
         THEN MergePage(all_cves, Tail(page))
         ELSE MergePage(
                  Append(all_cves, [id |-> Head(page).id, cvss |-> ParseCvss(Head(page))]),
                  Tail(page))

\* the score of the first record is taken
FirstCvss(cves) == IF cves = <<>> THEN 0 ELSE Head(cves).cvss

\* max([...], default=0)
RECURSIVE MaxCvss(_)
MaxCvss(cves) ==
    IF cves = <<>> THEN 0
    ELSE LET m == MaxCvss(Tail(cves))
         IN  IF Len(cves) > 1 /\ m > Head(cves).cvss THEN m ELSE Head(cves).cvss

(***************************************************************************)
(* NVDCache: the table cve_cache as a set of rows                          *)
(***************************************************************************)

\* "if version:" of Python
Truthy(version) == version # NoneVersion /\ version # ""

\* "version or ''"
VersionOrEmpty(version) == IF Truthy(version) THEN version ELSE ""

\* json.dumps(cves): the fields of the records, one after the other
RECURSIVE JsonDumps(_)
JsonDumps(cves) ==
    IF cves = <<>> THEN <<>>
    ELSE <<Head(cves).id, Head(cves).cvss>> \o JsonDumps(Tail(cves))

\* json.loads(text) if text else []
JsonLoads(text) ==
    [i \in 1..(Len(text) \div 2) |-> [id |-> text[2 * i - 1], cvss |-> text[2 * i]]]

IndexRank(version) == CHOOSE i \in DOMAIN VersionOrder : VersionOrder[i] = version

\* the rows the WHERE clause of lines 203-208 / 224-229 selects
Matching(rows, package_name, version) ==
    {r \in rows : /\ r.package_name = package_name
                  /\ (Truthy(version) => r.version = version)}

\* the row with the greatest version instead of the least
FetchLast(rows) ==
    CHOOSE r \in rows : \A q \in rows : IndexRank(r.version) >= IndexRank(q.version)

\* c.fetchone(): the search runs over the index of UNIQUE(package_name, version),
\* so the first row is the one with the least version
FetchOne(rows) ==
    CHOOSE r \in rows : \A q \in rows : IndexRank(r.version) <= IndexRank(q.version)

\* a row whose count is in place while its records are not yet
HalfWrittenRow(package_name, version, cves, t) ==
    [package_name    |-> package_name,
     normalized_name |-> NormalizedOf[package_name],
     version         |-> version,
     queried_at      |-> t,
     cves_found      |-> Len(cves),
     cvss_max        |-> MaxCvss(cves),
     cve_data        |-> <<>>]

\* the row cache_result builds at time t
NewRow(package_name, version, cves, t) ==
    [package_name    |-> package_name,
     normalized_name |-> NormalizedOf[package_name],
     version         |-> version,
     queried_at      |-> t,
     cves_found      |-> Len(cves),
     cvss_max        |-> MaxCvss(cves),
     cve_data        |-> JsonDumps(cves)]

\* a plain INSERT with no UNIQUE constraint behind it
InsertOnly(rows, row) == rows \cup {row}

\* INSERT OR REPLACE under UNIQUE(package_name, version)
InsertOrReplace(rows, row) ==
    {r \in rows : ~(r.package_name = row.package_name /\ r.version = row.version)}
    \cup {row}

\* a row of exactly 24 hours counts as fresh
FreshAtWindowEdge(rows, package_name, version, t) ==
    LET found == Matching(rows, package_name, version)
    IN  /\ found # {}
        /\ t - FetchOne(found).queried_at <= TTL

\* is_cached_and_fresh at time t
is_cached_and_fresh(rows, package_name, version, t) ==
    LET found == Matching(rows, package_name, version)
    IN  /\ found # {}
        /\ t - FetchOne(found).queried_at < TTL

(***************************************************************************)
(* State                                                                   *)
(***************************************************************************)

VARIABLES
    cache,                   \* the rows of cve_cache
    now,                     \* time.time() / datetime.now(), in seconds
    ticks,                   \* clock steps taken between operations
    last_nvd_request_time,   \* the global of wait_for_rate_limit
    nvd_stats,               \* the global counters
    pc,                      \* where each caller stands in its operation
    frame,                   \* the locals of check_package and _query_nvd_api
    result,                  \* what check_package returned or raised
    obs,                     \* per call: what the call did (requests, slots)
    lastPut,                 \* per key: the last result a call wrote, if still valid
    lastRequestAt,           \* when the process sent its last request, -1 before the first
    raw,                     \* the name given to the normalizer
    normalized,              \* normalize_for_nvd(raw), once computed
    renormalized,            \* normalize_for_nvd(normalized), once computed
    selected,                \* get_cpe_keywords(raw), once computed
    normPc,                  \* how far the normalizer run has come
    scan,                    \* the batch scan_packages is working on
    calls,                   \* calls of check_package begun so far
    words,                   \* the words of a cleaned name, given to the cut of lines 98-110
    truncated,               \* what the cut made of them, once computed
    active_sessions,         \* the dict of auth.py
    issued,                  \* the logins so far: their session id, when, and their logout
    response                 \* the answer to the last request of the admin panel

vars == <<cache, now, ticks, last_nvd_request_time, nvd_stats, pc, frame, result,
          obs, lastPut, lastRequestAt, raw, normalized, renormalized, selected,
          normPc, scan, calls, words, truncated, active_sessions, issued, response>>

engineVars == <<cache, now, ticks, last_nvd_request_time, nvd_stats, pc, frame,
                result, obs, lastPut, lastRequestAt, scan, calls>>

normVars == <<raw, normalized, renormalized, selected, normPc>>

truncVars == <<words, truncated>>

authVars == <<active_sessions, issued, response>>

\* what the engine never touches
otherVars == <<normVars, truncVars, authVars>>

Keys == PackageNames \X Versions

\* a request: its keyword and attempt, when it was sent, how it ended, and how
\* many requests for its keyword have ended in a 429 status so far
NoRequest ==
    [keyword_idx |-> 0, attempt |-> 0, at |-> 0, kind |-> "none", page |-> <<>>,
     throttled |-> 0]

\* the counters, the time of the rate limiter and the rows at one moment
Snapshot(stats, last, rows) == [stats |-> stats, last |-> last, rows |-> rows]

NoStats ==
    Snapshot([total_queries |-> 0, cached_hits |-> 0, api_calls |-> 0,
              total_cves_found |-> 0], 0, {})

\* a rename: the name given up, the rows its deletion removed and the rows of
\* names other than the two of the rename
NoRename == [has |-> FALSE, original_name |-> <<>>, deleted |-> 0, others |-> {}]

NoPut == [has |-> FALSE, at |-> 0, cves |-> <<>>, failed |-> FALSE]

IdleFrame ==
    [op           |-> "none",
     package_name |-> <<>>,
     version      |-> NoneVersion,
     keywords     |-> <<>>,
     keyword_idx  |-> 0,
     attempt      |-> 0,
     retry_delay  |-> 0,
     all_cves     |-> <<>>,
     wake         |-> 0,
     cves         |-> <<>>,
     cached_result |-> <<>>,  \* the row get_cached_result read, if any
     loaded       |-> -1]     \* the counter value read by a += still to be written

IdleObs ==
    [slots    |-> 0,          \* times wait_for_rate_limit returned to this call
     granted  |-> -1,         \* when it last did
     requests |-> 0,          \* session.get calls of this call
     okSeen   |-> FALSE,      \* some request of this call was answered with a page
     failed   |-> FALSE,      \* some request of this call was not
     stale    |-> FALSE,      \* when the call began the row of its key was 24 hours old or older
     last     |-> NoRequest,  \* the last request
     expect   |-> NoPut,      \* the valid earlier result for the key when the call began
     served   |-> "-",        \* the version of the row a cache hit was read from
     before   |-> NoStats,    \* nvd_stats, the limiter's time and the cache when the call began
     renamed  |-> NoRename,   \* for a rescan: the name given up and what its deletion left
     wrote    |-> FALSE]      \* the call wrote a row

NoResult ==
    [status |-> "none", cached |-> FALSE, cves_found |-> 0, cvss_max |-> 0,
     cves |-> <<>>, vulnerable |-> FALSE]

\* an exception left check_package
Raised == [NoResult EXCEPT !.status = "raised"]

\* rows an earlier run of the server left in the database file
PriorCves == <<[id |-> "CVE-2", cvss |-> 4]>>

PriorRows ==
    {NewRow(NameA, "1", PriorCves, StartTime - TTL),
     NewRow(NameA, "1", PriorCves, StartTime - 1)}

\* scan_packages: the packages still to go, the packages of the request with
\* a name, and the counts of lines 497-505
IdleScan ==
    [status |-> "idle", pending |-> <<>>, named |-> 0, checked |-> 0, vulnerable |-> 0]

EngineInit(rows) ==
    /\ cache = rows
    /\ now = StartTime
    /\ ticks = 0
    /\ last_nvd_request_time = 0
    /\ nvd_stats = [total_queries |-> 0, cached_hits |-> 0, api_calls |-> 0,
                    total_cves_found |-> 0]
    /\ pc = [t \in Threads |-> "idle"]
    /\ frame = [t \in Threads |-> IdleFrame]
    /\ result = [t \in Threads |-> NoResult]
    /\ obs = [t \in Threads |-> IdleObs]
    /\ lastPut = [k \in Keys |-> NoPut]
    /\ lastRequestAt = -1
    /\ scan = IdleScan
    /\ calls = 0

\* no name is with the normalizer
NormOff ==
    /\ raw = <<>>
    /\ normalized = <<>>
    /\ renormalized = <<>>
    /\ selected = <<>>
    /\ normPc = "off"

NotTruncated == [done |-> FALSE, name |-> <<>>]

\* no words are with the cut
TruncOff ==
    /\ words = <<>>
    /\ truncated = NotTruncated

\* no request yet: the path and the cookie admin_session of a request, the
\* status of its answer, whether a page handler ran, and when
NoResponse ==
    [path |-> <<>>, cookie |-> "", status |-> 0, page |-> FALSE, at |-> 0]

\* auth.py 15: no session yet, and no request answered
AuthStart ==
    /\ active_sessions = {}
    /\ issued = {}
    /\ response = NoResponse

Init ==
    /\ \E rows \in {{}} \cup {{r} : r \in PriorRows} : EngineInit(rows)
    /\ NormOff
    /\ TruncOff
    /\ AuthStart

(***************************************************************************)
(* The callers: check_cves / scan_packages, rescan_package, force_check    *)
(***************************************************************************)

\* operations begun so far
Begun == calls

\* the earlier result that is still valid for the key at time t
ValidPut(put, t) == IF put.has /\ t - put.at < TTL THEN put ELSE NoPut

\* the row of exactly (package_name, version or "") is 24 hours old or older at time t
StaleRow(rows, package_name, version, t) ==
    \E r \in rows : /\ r.package_name = package_name
                    /\ r.version = VersionOrEmpty(version)
                    /\ t - r.queried_at >= TTL

Call(t, op, package_name, version, puts, rows, renamed) ==
    /\ pc' = [pc EXCEPT ![t] = "enter"]
    /\ frame' = [frame EXCEPT ![t] =
                    [IdleFrame EXCEPT !.op = op, !.package_name = package_name,
                                      !.version = version]]
    /\ obs' = [obs EXCEPT ![t] =
                    [IdleObs EXCEPT !.expect = ValidPut(puts[<<package_name, version>>], now),
                                    !.stale = StaleRow(rows, package_name, version, now),
                                    !.before = Snapshot(nvd_stats, last_nvd_request_time, rows),
                                    !.renamed = renamed]]
    /\ lastPut' = puts
    /\ calls' = calls + 1

\* app.py 425-435, 499-505: check_package(name, version) is called
BeginCheck(t, package_name, version) ==
    /\ pc[t] = "idle"
    /\ Begun < MaxChecks
    /\ Call(t, "check", package_name, version, lastPut, cache, NoRename)
    /\ UNCHANGED <<cache, now, ticks, last_nvd_request_time, nvd_stats, result,
                   lastRequestAt, otherVars, scan>>

\* the DELETE of lines 606-610 is left out
BeginRescanNoDelete(t, original_name, new_name) ==
    /\ pc[t] = "idle"
    /\ Begun < MaxChecks
    /\ cache' = cache
    /\ Call(t, "rescan", new_name, NoneVersion,
            [k \in Keys |-> IF k[1] = original_name THEN NoPut ELSE lastPut[k]],
            {r \in cache : r.package_name # original_name},
            [has           |-> TRUE,
             original_name |-> original_name,
             deleted       |-> Cardinality({r \in cache : r.package_name = original_name}),
             others        |-> {r \in cache : r.package_name \notin {original_name, new_name}}])
    /\ UNCHANGED <<now, ticks, last_nvd_request_time, nvd_stats, result,
                   lastRequestAt, otherVars, scan>>

\* app.py 606-613: the rows of original_name are deleted, then
\* check_package(new_name) is called (the update of the software table is
\* outside the engine)
BeginRescan(t, original_name, new_name) ==
    /\ pc[t] = "idle"
    /\ Begun < MaxChecks
    /\ cache' = {r \in cache : r.package_name # original_name}
    /\ Call(t, "rescan", new_name, NoneVersion,
            [k \in Keys |-> IF k[1] = original_name THEN NoPut ELSE lastPut[k]],
            {r \in cache : r.package_name # original_name},
            [has           |-> TRUE,
             original_name |-> original_name,
             deleted       |-> Cardinality({r \in cache : r.package_name = original_name}),
             others        |-> {r \in cache : r.package_name \notin {original_name, new_name}}])
    /\ UNCHANGED <<now, ticks, last_nvd_request_time, nvd_stats, result,
                   lastRequestAt, otherVars, scan>>

\* app.py 743-751: the row of (package_name, version or "") is deleted, then
\* check_package(package_name, version) is called
BeginForceCheck(t, package_name, version) ==
    /\ pc[t] = "idle"
    /\ Begun < MaxChecks
    /\ cache' = {r \in cache : ~(/\ r.package_name = package_name
                                 /\ r.version = VersionOrEmpty(version))}
    /\ Call(t, "force", package_name, version,
            [lastPut EXCEPT ![<<package_name, version>>] = NoPut],
            {r \in cache : ~(/\ r.package_name = package_name
                             /\ r.version = VersionOrEmpty(version))},
            NoRename)
    /\ UNCHANGED <<now, ticks, last_nvd_request_time, nvd_stats, result,
                   lastRequestAt, otherVars, scan>>

(***************************************************************************)
(* check_package                                                           *)
(***************************************************************************)

\* the counter the += of lines 459, 464, 477 and 479 works on
CounterAt(at) ==
    CASE at = "enter" -> "total_queries"
      [] at = "count" -> "cached_hits"
      [] at = "miss"  -> "api_calls"
      [] at = "store" -> "total_cves_found"

\* lines 459, 464, 477, 479: nvd_stats[k] += n reads nvd_stats[k] first; the
\* sum is written by a later step, and nothing holds other callers off in
\* between
LoadCounter(t) ==
    /\ pc[t] \in {"enter", "count", "miss", "store"}
    /\ frame[t].loaded = -1
    /\ frame' = [frame EXCEPT ![t].loaded = nvd_stats[CounterAt(pc[t])]]
    /\ UNCHANGED <<cache, now, ticks, last_nvd_request_time, nvd_stats, pc, result, obs,
                   lastPut, lastRequestAt, calls, otherVars, scan>>

\* line 459: the sum is written
Enter(t) ==
    /\ pc[t] = "enter"
    /\ frame[t].loaded # -1
    /\ nvd_stats' = [nvd_stats EXCEPT !.total_queries = frame[t].loaded + 1]
    /\ frame' = [frame EXCEPT ![t].loaded = -1]
    /\ pc' = [pc EXCEPT ![t] = "fresh"]
    /\ UNCHANGED <<cache, now, ticks, last_nvd_request_time, result, obs,
                   lastPut, lastRequestAt, calls, otherVars, scan>>

\* line 462
TestFresh(t) ==
    /\ pc[t] = "fresh"
    /\ pc' = [pc EXCEPT ![t] =
                 IF is_cached_and_fresh(cache, frame[t].package_name, frame[t].version, now)
                 THEN "hit" ELSE "miss"]
    /\ UNCHANGED <<cache, now, ticks, last_nvd_request_time, nvd_stats, frame, result,
                   obs, lastPut, lastRequestAt, calls, otherVars, scan>>

\* the dict of lines 466-474 for the row get_cached_result read
CachedResult(row) ==
    [status     |-> "ok",
     cached     |-> TRUE,
     cves_found |-> row.cves_found,
     cvss_max   |-> row.cvss_max,
     cves       |-> JsonLoads(row.cve_data),
     vulnerable |-> row.cves_found > 0]

\* line 463: get_cached_result reads the row, or returns None when there is
\* none
ServeCached(t) ==
    LET found == Matching(cache, frame[t].package_name, frame[t].version)
    IN  /\ pc[t] = "hit"
        /\ pc' = [pc EXCEPT ![t] = "count"]
        /\ IF found = {}
           THEN /\ frame' = [frame EXCEPT ![t].cached_result = <<>>]
                /\ obs' = obs
           ELSE /\ frame' = [frame EXCEPT ![t].cached_result = <<FetchOne(found)>>]
                /\ obs' = [obs EXCEPT ![t].served = FetchOne(found).version]
        /\ UNCHANGED <<cache, now, ticks, last_nvd_request_time, nvd_stats, result, lastPut,
                       lastRequestAt, calls, otherVars, scan>>

\* lines 464-474: the hit is counted and the result is built from the row;
\* with None for the row line 465 raises after line 464 has counted the hit
CountHit(t) ==
    LET cached_result == frame[t].cached_result
    IN  /\ pc[t] = "count"
        /\ frame[t].loaded # -1
        /\ pc' = [pc EXCEPT ![t] = "done"]
        /\ frame' = [frame EXCEPT ![t].loaded = -1]
        /\ IF cached_result = <<>>
           THEN /\ nvd_stats' = [nvd_stats EXCEPT !.cached_hits = frame[t].loaded + 1]
                /\ result' = [result EXCEPT ![t] = Raised]
           ELSE /\ nvd_stats' = [nvd_stats EXCEPT
                                    !.cached_hits = frame[t].loaded + 1,
                                    !.total_cves_found = @ + cached_result[1].cves_found]
                /\ result' = [result EXCEPT ![t] = CachedResult(cached_result[1])]
        /\ UNCHANGED <<cache, now, ticks, last_nvd_request_time, obs, lastPut,
                       lastRequestAt, calls, otherVars, scan>>

\* the lookup is not counted
MissUncounted(t) ==
    LET keywords == KeywordsOf[frame[t].package_name]
    IN  /\ pc[t] = "miss"
        /\ frame[t].loaded # -1
        /\ nvd_stats' = nvd_stats
        /\ frame' = [frame EXCEPT ![t].keywords = keywords, ![t].loaded = -1]
        /\ pc' = [pc EXCEPT ![t] = IF keywords = <<>> THEN "store" ELSE "rl_read"]
        /\ UNCHANGED <<cache, now, ticks, last_nvd_request_time, result, obs, lastPut,
                       lastRequestAt, calls, otherVars, scan>>

\* lines 477-478 and 286-295: the call is counted and the keywords are chosen;
\* with no keyword _query_nvd_api returns [] at once
Miss(t) ==
    LET keywords == KeywordsOf[frame[t].package_name]
    IN  /\ pc[t] = "miss"
        /\ frame[t].loaded # -1
        /\ nvd_stats' = [nvd_stats EXCEPT !.api_calls = frame[t].loaded + 1]
        /\ frame' = [frame EXCEPT ![t].keywords = keywords, ![t].loaded = -1]
        /\ pc' = [pc EXCEPT ![t] = IF keywords = <<>> THEN "store" ELSE "rl_read"]
        /\ UNCHANGED <<cache, now, ticks, last_nvd_request_time, result, obs, lastPut,
                       lastRequestAt, calls, otherVars, scan>>

(***************************************************************************)
(* wait_for_rate_limit, called once per _query_nvd_api (line 298)          *)
(***************************************************************************)

\* the caller never waits
NoWaitTime(t, last) == 0

\* lines 47-51: wait_time, 0 when no sleep is needed
WaitTime(t, last) ==
    IF t - last < NVD_REQUEST_DELAY THEN NVD_REQUEST_DELAY - (t - last) ELSE 0

\* lines 47-51: the clock and the global are read
RateLimitRead(t) ==
    /\ pc[t] = "rl_read"
    /\ IF WaitTime(now, last_nvd_request_time) > 0
       THEN /\ frame' = [frame EXCEPT ![t].wake = now + WaitTime(now, last_nvd_request_time)]
            /\ pc' = [pc EXCEPT ![t] = "rl_sleep"]
       ELSE /\ frame' = frame
            /\ pc' = [pc EXCEPT ![t] = "rl_stamp"]
    /\ UNCHANGED <<cache, now, ticks, last_nvd_request_time, nvd_stats, result, obs,
                   lastPut, lastRequestAt, calls, otherVars, scan>>

Sleeping(t) == pc[t] \in {"rl_sleep", "backoff"}

\* time.sleep returns: the sleeper that is due first wakes, and the clock
\* stands at its wake time (the shortest sleep the call allows)
WakeUp(t, next) ==
    /\ \A u \in Threads : Sleeping(u) => frame[t].wake <= frame[u].wake
    /\ now' = IF frame[t].wake > now THEN frame[t].wake ELSE now
    /\ pc' = [pc EXCEPT ![t] = next]
    /\ frame' = [frame EXCEPT ![t].wake = 0]

\* line 53
RateLimitSleep(t) ==
    /\ pc[t] = "rl_sleep"
    /\ WakeUp(t, "rl_stamp")
    /\ UNCHANGED <<cache, ticks, last_nvd_request_time, nvd_stats, result, obs,
                   lastPut, lastRequestAt, calls, otherVars, scan>>

\* line 55, and lines 300-310 for the first keyword
RateLimitStamp(t) ==
    /\ pc[t] = "rl_stamp"
    /\ last_nvd_request_time' = now
    /\ obs' = [obs EXCEPT ![t].slots = @ + 1, ![t].granted = now]
    /\ frame' = [frame EXCEPT ![t].keyword_idx = 1, ![t].attempt = 0,
                              ![t].retry_delay = 1]
    /\ pc' = [pc EXCEPT ![t] = "send"]
    /\ UNCHANGED <<cache, now, ticks, nvd_stats, result, lastPut, lastRequestAt,
                   calls, otherVars, scan>>

(***************************************************************************)
(* _query_nvd_api: the keyword loop and the retry loop                     *)
(***************************************************************************)

\* a 429 is always tried again
RetryAlways(attempt) == TRUE

\* line 332: another attempt may follow this one
RetryAllowed(attempt) == attempt < max_retries - 1

\* the delay is not doubled
SameRetryDelay(retry_delay) == retry_delay

\* line 338
NextRetryDelay(retry_delay) == retry_delay * 2

\* the keyword loop never stops early
NeverStopAfterKeyword(all_cves) == FALSE

\* line 429: the keyword loop stops once a record was found
StopAfterKeyword(all_cves) == all_cves # <<>>

\* the list is returned without the cut of line 434
AfterKeywordNoCap(t, all_cves) ==
    IF ~StopAfterKeyword(all_cves) /\ frame[t].keyword_idx < Len(frame[t].keywords)
    THEN /\ frame' = [frame EXCEPT ![t].all_cves = all_cves,
                                   ![t].keyword_idx = @ + 1,
                                   ![t].attempt = 0,
                                   ![t].retry_delay = 1]
         /\ pc' = [pc EXCEPT ![t] = "send"]
    ELSE /\ frame' = [frame EXCEPT ![t].all_cves = all_cves,
                                   ![t].cves = all_cves]
         /\ pc' = [pc EXCEPT ![t] = "store"]

\* lines 428-434: the retry loop of a keyword is over
AfterKeyword(t, all_cves) ==
    IF ~StopAfterKeyword(all_cves) /\ frame[t].keyword_idx < Len(frame[t].keywords)
    THEN /\ frame' = [frame EXCEPT ![t].all_cves = all_cves,
                                   ![t].keyword_idx = @ + 1,
                                   ![t].attempt = 0,
                                   ![t].retry_delay = 1]
         /\ pc' = [pc EXCEPT ![t] = "send"]
    ELSE /\ frame' = [frame EXCEPT ![t].all_cves = all_cves,
                                   ![t].cves = FirstN(all_cves, MaxResults)]
         /\ pc' = [pc EXCEPT ![t] = "store"]

\* lines 312-431: one session.get for the current keyword and what follows
\* from its outcome, up to the next request, sleep or return
Send(t, resp) ==
    LET f == frame[t]
        before == IF obs[t].last.keyword_idx = f.keyword_idx
                  THEN obs[t].last.throttled ELSE 0
        request == [keyword_idx |-> f.keyword_idx, attempt |-> f.attempt, at |-> now,
                    kind |-> resp.kind, page |-> resp.page,
                    throttled |-> IF resp.kind = "429" THEN before + 1 ELSE before]
    IN  /\ pc[t] = "send"
        /\ obs' = [obs EXCEPT ![t].requests = @ + 1,
                              ![t].okSeen = @ \/ resp.kind = "ok",
                              ![t].failed = @ \/ resp.kind # "ok",
                              ![t].last = request]
        /\ lastRequestAt' = now
        /\ CASE resp.kind = "429" /\ RetryAllowed(f.attempt) ->
                    \* lines 332-339: sleep, double the delay, same keyword again
                    /\ frame' = [frame EXCEPT ![t].wake = now + f.retry_delay,
                                              ![t].retry_delay = NextRetryDelay(f.retry_delay),
                                              ![t].attempt = @ + 1]
                    /\ pc' = [pc EXCEPT ![t] = "backoff"]
             [] resp.kind = "error429" /\ RetryAllowed(f.attempt) ->
                    \* lines 424-426: no break, the next attempt follows at once
                    /\ frame' = [frame EXCEPT ![t].attempt = @ + 1]
                    /\ pc' = pc
             [] resp.kind = "crash" ->
                    \* lines 436-438: the outer handler returns []
                    /\ frame' = [frame EXCEPT ![t].cves = <<>>]
                    /\ pc' = [pc EXCEPT ![t] = "store"]
             [] OTHER ->
                    AfterKeyword(t, IF resp.kind = "ok"
                                    THEN MergePage(f.all_cves, resp.page)
                                    ELSE f.all_cves)
        /\ UNCHANGED <<cache, now, ticks, last_nvd_request_time, nvd_stats, result,
                       lastPut, calls, otherVars, scan>>

\* line 337: time.sleep(retry_delay) returns
Backoff(t) ==
    /\ pc[t] = "backoff"
    /\ WakeUp(t, "send")
    /\ UNCHANGED <<cache, ticks, last_nvd_request_time, nvd_stats, result, obs,
                   lastPut, lastRequestAt, calls, otherVars, scan>>

\* vulnerable is len(cves) >= 0
FindingsAssumed(cves) ==
    [status     |-> "ok",
     cached     |-> FALSE,
     cves_found |-> Len(cves),
     cvss_max   |-> MaxCvss(cves),
     cves       |-> cves,
     vulnerable |-> Len(cves) >= 0]

\* the dict of lines 482-492
FreshResult(cves) ==
    [status     |-> "ok",
     cached     |-> FALSE,
     cves_found |-> Len(cves),
     cvss_max   |-> MaxCvss(cves),
     cves       |-> cves,
     vulnerable |-> Len(cves) > 0]

\* lines 479-492: the count, the cache write and the result; when the write
\* fails (stored = FALSE) its exception leaves check_package
Store(t, stored) ==
    LET f == frame[t]
    IN  /\ pc[t] = "store"
        /\ f.loaded # -1
        /\ nvd_stats' = [nvd_stats EXCEPT !.total_cves_found = f.loaded + Len(f.cves)]
        /\ frame' = [frame EXCEPT ![t].loaded = -1]
        /\ pc' = [pc EXCEPT ![t] = "done"]
        /\ IF stored
           THEN /\ cache' = InsertOrReplace(cache,
                                NewRow(f.package_name, VersionOrEmpty(f.version), f.cves, now))
                /\ lastPut' = [lastPut EXCEPT ![<<f.package_name, f.version>>] =
                                  [has |-> TRUE, at |-> now, cves |-> f.cves,
                                   failed |-> obs[t].failed]]
                /\ obs' = [obs EXCEPT ![t].wrote = TRUE]
                /\ result' = [result EXCEPT ![t] = FreshResult(f.cves)]
           ELSE /\ result' = [result EXCEPT ![t] = Raised]
                /\ UNCHANGED <<cache, lastPut, obs>>
        /\ UNCHANGED <<now, ticks, last_nvd_request_time, lastRequestAt, calls, otherVars,
                       scan>>

\* the caller has its answer
Return(t) ==
    /\ pc[t] = "done"
    /\ frame[t].op # "scan"
    /\ pc' = [pc EXCEPT ![t] = "idle"]
    /\ frame' = [frame EXCEPT ![t] = IdleFrame]
    /\ result' = [result EXCEPT ![t] = NoResult]
    /\ obs' = [obs EXCEPT ![t] = IdleObs]
    /\ UNCHANGED <<cache, now, ticks, last_nvd_request_time, nvd_stats, lastPut,
                   lastRequestAt, calls, otherVars, scan>>

(***************************************************************************)
(* scan_packages (app.py 474-529)                                          *)
(***************************************************************************)

\* a package of the request: pkg.get("name") and pkg.get("version")
Package(name, version) == [name |-> name, version |-> version]

\* packages with a name, the ones line 504 counts
RECURSIVE Named(_)
Named(packages) ==
    IF packages = <<>> THEN 0
    ELSE (IF Head(packages).name # <<>> THEN 1 ELSE 0) + Named(Tail(packages))

\* lines 489-497: the request is accepted (packages is a non-empty list)
BeginScan(t, packages) ==
    /\ pc[t] = "idle"
    /\ scan.status = "idle"
    /\ packages # <<>>
    /\ Begun + Named(packages) <= MaxChecks
    /\ scan' = [IdleScan EXCEPT !.status = "running", !.pending = packages,
                               !.named = Named(packages)]
    /\ UNCHANGED <<cache, now, ticks, last_nvd_request_time, nvd_stats, pc, frame,
                   result, obs, lastPut, lastRequestAt, calls, otherVars>>

\* lines 502-503: a package without a name is passed over
ScanSkip(t) ==
    /\ pc[t] = "idle"
    /\ scan.status = "running"
    /\ scan.pending # <<>>
    /\ Head(scan.pending).name = <<>>
    /\ scan' = [scan EXCEPT !.pending = Tail(@)]
    /\ UNCHANGED <<cache, now, ticks, last_nvd_request_time, nvd_stats, pc, frame,
                   result, obs, lastPut, lastRequestAt, calls, otherVars>>

\* lines 500-505: the next package is counted and check_package is called;
\* a version that is empty is passed as None
ScanCheck(t) ==
    /\ pc[t] = "idle"
    /\ scan.status = "running"
    /\ scan.pending # <<>>
    /\ Head(scan.pending).name # <<>>
    /\ scan' = [scan EXCEPT !.checked = @ + 1]
    /\ Call(t, "scan", Head(scan.pending).name,
            IF Truthy(Head(scan.pending).version)
            THEN Head(scan.pending).version ELSE NoneVersion,
            lastPut, cache, NoRename)
    /\ UNCHANGED <<cache, now, ticks, last_nvd_request_time, nvd_stats, result,
                   lastRequestAt, otherVars>>

\* lines 505-517: check_package is back; its result is looked at and the loop
\* goes on, or its exception leaves the handler and the request fails
ScanCollect(t) ==
    /\ pc[t] = "done"
    /\ frame[t].op = "scan"
    /\ scan' = IF result[t].status = "raised"
               THEN [scan EXCEPT !.status = "aborted"]
               ELSE [scan EXCEPT !.pending = Tail(@),
                                 !.vulnerable = @ + (IF result[t].vulnerable THEN 1 ELSE 0)]
    /\ pc' = [pc EXCEPT ![t] = "idle"]
    /\ frame' = [frame EXCEPT ![t] = IdleFrame]
    /\ result' = [result EXCEPT ![t] = NoResult]
    /\ obs' = [obs EXCEPT ![t] = IdleObs]
    /\ UNCHANGED <<cache, now, ticks, last_nvd_request_time, nvd_stats, lastPut,
                   lastRequestAt, calls, otherVars>>

\* lines 519-529: the loop is over and the response is returned
ScanRespond(t) ==
    /\ pc[t] = "idle"
    /\ scan.status = "running"
    /\ scan.pending = <<>>
    /\ scan' = [scan EXCEPT !.status = "returned"]
    /\ UNCHANGED <<cache, now, ticks, last_nvd_request_time, nvd_stats, pc, frame,
                   result, obs, lastPut, lastRequestAt, calls, otherVars>>

\* time passes while no operation runs
Tick(d) ==
    /\ \A t \in Threads : pc[t] = "idle"
    /\ ticks < MaxTicks
    /\ ticks' = ticks + 1
    /\ now' = now + d
    /\ UNCHANGED <<cache, last_nvd_request_time, nvd_stats, pc, frame, result, obs,
                   lastPut, lastRequestAt, calls, otherVars, scan>>

(***************************************************************************)
(* Specifications                                                          *)
(***************************************************************************)

\* the steps of the callers in T, for the calls in Q (pairs of a name and a
\* version), the source answering from R, the cache write ending as in S and
\* the clock stepping by the amounts in D
Steps(T, Q, R, S, D) ==
    \/ \E t \in T, q \in Q : BeginCheck(t, q[1], q[2])
    \/ \E t \in T, x \in Q, y \in Q : BeginRescan(t, x[1], y[1])
    \/ \E t \in T, q \in Q : BeginForceCheck(t, q[1], q[2])
    \/ \E t \in T : LoadCounter(t)
    \/ \E t \in T : Enter(t)
    \/ \E t \in T : TestFresh(t)
    \/ \E t \in T : ServeCached(t)
    \/ \E t \in T : CountHit(t)
    \/ \E t \in T : Miss(t)
    \/ \E t \in T : RateLimitRead(t)
    \/ \E t \in T : RateLimitSleep(t)
    \/ \E t \in T : RateLimitStamp(t)
    \/ \E t \in T, resp \in R : Send(t, resp)
    \/ \E t \in T : Backoff(t)
    \/ \E t \in T, stored \in S : Store(t, stored)
    \/ \E t \in T : Return(t)
    \/ \E d \in D : Tick(d)

\* the steps of check_package alone, for a caller that is modelled apart
CheckSteps(T, R, S) ==
    \/ \E t \in T : LoadCounter(t)
    \/ \E t \in T : Enter(t)
    \/ \E t \in T : TestFresh(t)
    \/ \E t \in T : ServeCached(t)
    \/ \E t \in T : CountHit(t)
    \/ \E t \in T : Miss(t)
    \/ \E t \in T : RateLimitRead(t)
    \/ \E t \in T : RateLimitSleep(t)
    \/ \E t \in T : RateLimitStamp(t)
    \/ \E t \in T, resp \in R : Send(t, resp)
    \/ \E t \in T : Backoff(t)
    \/ \E t \in T, stored \in S : Store(t, stored)

Page(records) == [kind |-> "ok", page |-> records]

Failure(kind) == [kind |-> kind, page |-> <<>>]

\* The cache and its keys. One caller at a time: the handlers of app.py are
\* coroutines that never yield inside check_package. The source finds
\* nothing, finds records, or answers 429; the database file may hold a row
\* of an earlier run.
Next ==
    Steps({"t1"},
          {<<NameA, NoneVersion>>, <<NameA, "1">>, <<NameB, NoneVersion>>},
          {Page(<<>>), Page(<<RawV1, RawV2, RawV1again>>), Failure("429")},
          {TRUE}, TickSteps)

Spec == Init /\ [][Next]_vars

\* One query after the other for one name of three keywords, the source and
\* the cache write ending in every way they can.
QueryInit ==
    /\ EngineInit({})
    /\ NormOff
    /\ TruncOff
    /\ AuthStart

QueryNext == Steps({"t1"}, {<<NameJ, NoneVersion>>}, Responses, BOOLEAN, {1})

SpecQuery == QueryInit /\ [][QueryNext]_vars

\* Two callers at once, as the threads of a batch would be: checks and forced
\* checks of one name, the clock moved by the sleeps alone.
ConcNext ==
    \/ \E t \in Threads : BeginCheck(t, NameB, NoneVersion)
    \/ \E t \in Threads : BeginForceCheck(t, NameB, NoneVersion)
    \/ CheckSteps(Threads, {Page(<<RawV1>>), Failure("429")}, {TRUE})
    \/ \E t \in Threads : Return(t)

SpecConc == QueryInit /\ [][ConcNext]_vars

\* Two callers at once over a database that holds a fresh row of the name.
RaceInit ==
    /\ EngineInit({NewRow(NameB, "", PriorCves, StartTime - 1)})
    /\ NormOff
    /\ TruncOff
    /\ AuthStart

SpecRace == RaceInit /\ [][ConcNext]_vars

\* One batch of scan_packages: up to MaxBatch packages, one of them without
\* a name, the source and the cache write ending in every way.
MaxBatch == 3

ScanPackages ==
    {Package(NameB, ""), Package(NameA, "1"), Package(NameE, "")}

Batches == UNION {[1..n -> ScanPackages] : n \in 1..MaxBatch}

ScanNext ==
    \/ \E packages \in Batches : BeginScan("t1", packages)
    \/ ScanSkip("t1")
    \/ ScanCheck("t1")
    \/ CheckSteps({"t1"}, {Page(<<>>), Page(<<RawV1>>), Failure("429")}, BOOLEAN)
    \/ ScanCollect("t1")
    \/ ScanRespond("t1")

SpecScan == QueryInit /\ [][ScanNext]_vars

\* The parsing of responses: a response longer than the cap, and one with
\* records of every scoring shape and a repeated id.
ParseNext ==
    Steps({"t1"}, {<<NameA, NoneVersion>>},
          {Page(<<>>), Page(BigPage), Page(MixedPage), Failure("429")}, {TRUE}, {1})

SpecParse == QueryInit /\ [][ParseNext]_vars

\* Renames. The database holds rows of the name given up under two versions
\* and a row of a name that is no part of the rename.
RenameRows ==
    {NewRow(NameA, "1", PriorCves, StartTime - 1),
     NewRow(NameA, "", <<>>, StartTime - 1),
     NewRow(NameJ, "", PriorCves, StartTime - 1)}

RenameInit ==
    /\ EngineInit(RenameRows)
    /\ NormOff
    /\ TruncOff
    /\ AuthStart

RenameNext ==
    Steps({"t1"}, {<<NameA, NoneVersion>>, <<NameB, NoneVersion>>},
          {Page(<<>>), Page(<<RawV1>>), Failure("429")}, {TRUE}, {1})

SpecRename == RenameInit /\ [][RenameNext]_vars

\* check_package called as a function, the empty name among its arguments.
DirectNext ==
    \/ Steps({"t1"}, {<<NameB, NoneVersion>>},
             {Page(<<>>), Page(<<RawV1>>), Failure("429")}, {TRUE}, {1, TTL})
    \/ \E t \in {"t1"} : BeginCheck(t, NameE, NoneVersion)

SpecDirect == QueryInit /\ [][DirectNext]_vars

(***************************************************************************)
(* The normalizer on its own                                               *)
(***************************************************************************)

\* pieces a raw name of the model is put together from
MaxPieces == 3

Pieces ==
    {<<"a">>, <<"A">>, <<"7">>, <<"1">>, <<"_">>, <<"-">>, <<" ">>,
     <<"x", "6", "4">>, <<"z", "i", "p">>, <<"j", "a", "v", "a">>}

RECURSIVE Concat(_)
Concat(parts) == IF parts = <<>> THEN <<>> ELSE Head(parts) \o Concat(Tail(parts))

\* "7-zip_25_01_x64"
SevenZipRaw ==
    <<"7", "-", "z", "i", "p", "_", "2", "5", "_", "0", "1", "_", "x", "6", "4">>

\* "Java 8 Update 401 64-bit"
JavaRaw ==
    <<"J", "a", "v", "a", " ", "8", " ", "U", "p", "d", "a", "t", "e", " ",
      "4", "0", "1", " ", "6", "4", "-", "b", "i", "t">>

\* "ab (Git2)": the word git goes with the parenthesis
GitRaw == <<"a", "b", " ", "(", "G", "i", "t", "2", ")">>

RawNames ==
    {Concat(parts) : parts \in UNION {[1..n -> Pieces] : n \in 0..MaxPieces}}
    \cup {SevenZipRaw, JavaRaw, GitRaw}

NormInit ==
    /\ EngineInit({})
    /\ raw \in RawNames
    /\ normalized = <<>>
    /\ renormalized = <<>>
    /\ selected = <<>>
    /\ normPc = "raw"
    /\ TruncOff
    /\ AuthStart

\* normalize_for_nvd(raw)
Normalize ==
    /\ normPc = "raw"
    /\ normalized' = normalize_for_nvd(raw)
    /\ normPc' = "once"
    /\ UNCHANGED <<engineVars, raw, renormalized, selected, truncVars, authVars>>

\* normalize_for_nvd applied to its own result
Renormalize ==
    /\ normPc = "once"
    /\ renormalized' = normalize_for_nvd(normalized)
    /\ normPc' = "twice"
    /\ UNCHANGED <<engineVars, raw, normalized, selected, truncVars, authVars>>

\* get_cpe_keywords(raw)
SelectKeywords ==
    /\ normPc = "twice"
    /\ selected' = get_cpe_keywords(raw)
    /\ normPc' = "keywords"
    /\ UNCHANGED <<engineVars, raw, normalized, renormalized, truncVars, authVars>>

NormNext == Normalize \/ Renormalize \/ SelectKeywords

SpecNorm == NormInit /\ [][NormNext]_vars

(***************************************************************************)
(* The cut of lines 98-110 on its own                                      *)
(***************************************************************************)

\* words a cleaned name of the model is made of: of one character or two,
\* of digits or letters
MaxWords == 5

Tokens == {<<"a">>, <<"7">>, <<"a", "b">>, <<"1", "2">>, <<"c", "d">>}

TruncInit ==
    /\ EngineInit({})
    /\ NormOff
    /\ AuthStart
    /\ words \in UNION {[1..n -> Tokens] : n \in 0..MaxWords}
    /\ truncated = NotTruncated

\* lines 100-110 on the words of a cleaned name
TruncateWords ==
    /\ ~truncated.done
    /\ truncated' = [done |-> TRUE, name |-> Truncate(words)]
    /\ UNCHANGED <<engineVars, normVars, words, authVars>>

SpecTrunc == TruncInit /\ [][TruncateWords]_vars

(***************************************************************************)
(* The admin panel: auth.py and the middleware of app.py                   *)
(***************************************************************************)

\* auth.py 25: timedelta(hours=12), in seconds
SessionLifetime == 43200

\* auth.py 12: the default of ADMIN_PASSWORD
ADMIN_PASSWORD == "admin123"

\* logins the model follows; secrets.token_hex(32) gives each its own id
MaxSessions == 2

SessionIds == {ToString(i) : i \in 1..MaxSessions}

\* app.py 106-181: the paths of the login, the logout and the admin pages
Routes ==
    [login               |-> <<"/", "l", "o", "g", "i", "n">>,
     logout              |-> <<"/", "l", "o", "g", "o", "u", "t">>,
     dashboard           |-> <<"/", "d", "a", "s", "h", "b", "o", "a", "r", "d">>,
     hosts               |-> <<"/", "h", "o", "s", "t", "s">>,
     packages            |-> <<"/", "p", "a", "c", "k", "a", "g", "e", "s">>,
     software_management |-> <<"/", "s", "o", "f", "t", "w", "a", "r", "e", "-", "m", "a", "n", "a", "g", "e", "m", "e", "n", "t">>]

\* auth.py 31-45: what is_session_valid returns
is_session_valid(session_id) ==
    /\ session_id # ""
    /\ \E s \in active_sessions : /\ s.session_id = session_id
                                  /\ ~(now > s.expires_at)

\* auth.py 40-43: active_sessions after is_session_valid, which deletes the
\* session it finds expired
SessionsChecked(session_id) ==
    {s \in active_sessions : ~(s.session_id = session_id /\ now > s.expires_at)}

\* app.py 55-73 for a path outside /api/: whether the request is passed on to
\* its handler, and active_sessions afterwards; the session is looked at for
\* the paths of line 59 only
auth_middleware(path, session_id) ==
    LET is_admin_page ==
            \E prefix \in {Routes.dashboard, Routes.hosts, Routes.packages, Routes.logout} :
                HasPrefixAt(path, 1, prefix)
    IN  IF is_admin_page
        THEN [passed   |-> is_session_valid(session_id),
              sessions |-> SessionsChecked(session_id)]
        ELSE [passed |-> TRUE, sessions |-> active_sessions]

\* app.py 112-131 and auth.py 18-28: POST /login with a password
Login(password) ==
    /\ IF password = ADMIN_PASSWORD
       THEN \E session_id \in SessionIds :
                /\ \A s \in issued : s.session_id # session_id
                /\ active_sessions' = active_sessions \cup
                        {[session_id |-> session_id, expires_at |-> now + SessionLifetime]}
                /\ issued' = issued \cup
                        {[session_id |-> session_id, created_at |-> now, logged_out |-> FALSE]}
                /\ response' = [path |-> Routes.login, cookie |-> "", status |-> 302,
                                page |-> FALSE, at |-> now]
       ELSE /\ response' = [path |-> Routes.login, cookie |-> "", status |-> 401,
                            page |-> FALSE, at |-> now]
            /\ UNCHANGED <<active_sessions, issued>>
    /\ UNCHANGED <<engineVars, normVars, truncVars>>

\* app.py 140-149 behind the middleware: POST /logout with the cookie
\* admin_session
Logout(session_id) ==
    LET checked == auth_middleware(Routes.logout, session_id)
    IN  /\ IF checked.passed
           THEN /\ active_sessions' = {s \in checked.sessions : s.session_id # session_id}
                /\ issued' = {IF s.session_id = session_id
                              THEN [s EXCEPT !.logged_out = TRUE] ELSE s : s \in issued}
           ELSE /\ active_sessions' = checked.sessions
                /\ issued' = issued
        /\ response' = [path |-> Routes.logout, cookie |-> session_id, status |-> 302,
                        page |-> FALSE, at |-> now]
        /\ UNCHANGED <<engineVars, normVars, truncVars>>

\* app.py 160-181 behind the middleware: GET of an admin page with the cookie
\* admin_session; the handler renders the page, or the middleware redirects
\* to /login
GetPage(path, session_id) ==
    LET checked == auth_middleware(path, session_id)
    IN  /\ active_sessions' = checked.sessions
        /\ response' = [path |-> path, cookie |-> session_id,
                        status |-> IF checked.passed THEN 200 ELSE 302,
                        page |-> checked.passed, at |-> now]
        /\ UNCHANGED <<engineVars, normVars, truncVars, issued>>

\* requests with the right password and a wrong one, with no cookie and with
\* any session id as cookie; the clock steps across the 12 hours
AuthNext ==
    \/ \E password \in {ADMIN_PASSWORD, "guess"} : Login(password)
    \/ \E session_id \in SessionIds \cup {""} : Logout(session_id)
    \/ \E path \in {Routes.dashboard, Routes.hosts, Routes.packages,
                     Routes.software_management},
          session_id \in SessionIds \cup {""} : GetPage(path, session_id)
    \/ \E d \in {1, SessionLifetime, SessionLifetime + 1} : Tick(d)

SpecAuth == QueryInit /\ [][AuthNext]_vars

(***************************************************************************)
(* Properties                                                              *)
(***************************************************************************)

\* C1: a call of check_package that begins while an earlier result for its
\* (name, version) is valid -- written by a call for the same pair less than
\* 24 hours before, with no deletion of it since -- sends no request, reports
\* cached = true and returns the count and the records of that earlier result,
\* whatever other rows the cache holds.
C1_SecondCheckFromCache ==
    \A t \in Threads :
        (pc[t] = "done" /\ obs[t].expect.has) =>
            /\ result[t].status = "ok"
            /\ result[t].cached
            /\ obs[t].requests = 0
            /\ result[t].cves_found = Len(obs[t].expect.cves)
            /\ result[t].cves = obs[t].expect.cves

\* a second call for a version-less key was served with records while the
\* cache also holds a row of the same name under a version
C1_Witness ==
    \E t \in Threads :
        /\ pc[t] = "done"
        /\ obs[t].expect.has
        /\ result[t].cached
        /\ result[t].cves_found = 2
        /\ frame[t].version = NoneVersion
        /\ \E r \in cache : r.package_name = frame[t].package_name /\ r.version = "1"

\* C2: a call served from the cache is answered from the row whose version is
\* the one asked for, the empty text when no version is given: a version-less
\* lookup is never answered from a row stored under a version, nor a lookup
\* with a version from the version-less row.
C2_VersionlessKeyDistinct ==
    \A t \in Threads :
        (pc[t] = "done" /\ result[t].cached) =>
            obs[t].served = VersionOrEmpty(frame[t].version)

\* C3: a call all of whose requests failed (none was answered with a page)
\* writes no row.
C3_NoEntryWhenAllQueriesFail ==
    \A t \in Threads :
        (pc[t] = "done" /\ obs[t].requests > 0 /\ ~obs[t].okSeen) => ~obs[t].wrote

\* C4: a request is sent only when at least NVD_REQUEST_DELAY seconds have
\* passed since the last request of the process, be it of the same call
\* (another keyword, a retry) or of an earlier call.
C4_RequestsSpaced ==
    \A t \in Threads :
        (pc[t] = "send" /\ lastRequestAt >= 0) => now - lastRequestAt >= NVD_REQUEST_DELAY

\* C5: with callers running at once, the slots granted to two calls are at
\* least NVD_REQUEST_DELAY seconds apart.
C5_ConcurrentGrantsSpaced ==
    \A t \in Threads, u \in Threads :
        (t # u /\ obs[t].slots > 0 /\ obs[u].slots > 0) =>
            \/ obs[t].granted - obs[u].granted >= NVD_REQUEST_DELAY
            \/ obs[u].granted - obs[t].granted >= NVD_REQUEST_DELAY

\* C6: when a call is over, the slots the rate limiter granted to it are as
\* many as the requests it sent.
C6_OneSlotPerRequest ==
    \A t \in Threads : pc[t] = "done" => obs[t].slots = obs[t].requests

\* the backoff after the n-th 429 of a keyword: 1, then 2
BackoffAfter(n) == IF n = 1 THEN 1 ELSE 2

\* C7: after a 429 on the first or second attempt the same keyword is sent
\* again, 1 second after its first 429 and 2 seconds after its second; no keyword
\* is attempted more than 3 times; after the third 429 there is no sleep and
\* the next keyword, if any, is tried; a page received on a retry makes up
\* the records of the call; and a call whose last request ended in 429 goes
\* on to the cache write and returns a result.
C7_RetryOn429 ==
    \A t \in Threads :
        LET last == obs[t].last
            f    == frame[t]
        IN  /\ f.attempt < max_retries
            /\ (last.kind = "429" /\ last.attempt + 1 < max_retries) =>
                   /\ pc[t] \in {"backoff", "send"}
                   /\ f.keyword_idx = last.keyword_idx
                   /\ f.attempt = last.attempt + 1
                   /\ pc[t] = "backoff" => f.wake = last.at + BackoffAfter(last.throttled)
                   /\ pc[t] = "send" => now = last.at + BackoffAfter(last.throttled)
            /\ pc[t] = "backoff" => (last.kind = "429" /\ last.attempt + 1 < max_retries)
            /\ (last.kind = "429" /\ last.attempt + 1 = max_retries) =>
                   /\ now = last.at
                   /\ IF last.keyword_idx < Len(f.keywords)
                      THEN /\ pc[t] = "send"
                           /\ f.keyword_idx = last.keyword_idx + 1
                           /\ f.attempt = 0
                      ELSE /\ pc[t] \in {"store", "done"}
                           /\ (pc[t] = "done" /\ obs[t].wrote) =>
                                  (result[t].status = "ok" /\ ~result[t].cached)
            /\ (last.kind = "ok" /\ last.attempt > 0 /\ pc[t] \in {"store", "done"}) =>
                   f.cves = MergePage(<<>>, last.page)

\* the first keyword was given up after three 429s (sleeps of 1 and 2), the
\* second answered 429 and then, a second later, a page that became the result
C7_Witness ==
    \E t \in Threads :
        /\ pc[t] = "done"
        /\ result[t].status = "ok"
        /\ obs[t].requests = 5
        /\ obs[t].last.keyword_idx = 2
        /\ obs[t].last.attempt = 1
        /\ obs[t].last.kind = "ok"
        /\ result[t].cves_found = 2
        /\ now - obs[t].granted = 4

\* C8: once a keyword has left a record in all_cves no further request is
\* sent by the call; a page with a record as the first answer to the first
\* keyword makes that request the only one of the call.
C8_EarlyExit ==
    \A t \in Threads :
        LET last == obs[t].last
        IN  /\ frame[t].all_cves # <<>> => pc[t] \in {"store", "done"}
            /\ (last.kind = "ok" /\ last.page # <<>>) => pc[t] \in {"store", "done"}
            /\ (last.kind = "ok" /\ last.page # <<>> /\ last.keyword_idx = 1
                    /\ last.attempt = 0) => obs[t].requests = 1

\* a name of three keywords whose first keyword was answered with records:
\* one request, and the call is over
C8_Witness ==
    \E t \in Threads :
        /\ pc[t] = "done"
        /\ Len(frame[t].keywords) = 3
        /\ obs[t].last.keyword_idx = 1
        /\ obs[t].last.page # <<>>
        /\ obs[t].requests = 1
        /\ result[t].cves_found > 0

\* C9: normalizing a normalized name changes nothing.
C9_NormalizeIdempotent == normPc = "twice" => renormalized = normalized

\* C10: "7-zip_25_01_x64" normalizes to "7 zip".
C10_SevenZipScenario ==
    (raw = SevenZipRaw /\ normPc # "raw") => normalized = <<"7", " ", "z", "i", "p">>

\* a name of nothing but blanks, underscores and the word x64
StripsToNothing(name) ==
    /\ name # <<>>
    /\ \/ \A i \in DOMAIN name : name[i] \in {" ", "_"}
       \/ /\ \A i \in DOMAIN name : name[i] # "_"
          /\ \A i \in DOMAIN Split(name) : Split(name)[i] = <<"x", "6", "4">>

\* C11 as stated: normalize_for_nvd never returns the empty text, the empty
\* name included; a name of which nothing is left gives "unknown".
C11_NeverEmpty ==
    normPc # "raw" =>
        /\ normalized # <<>>
        /\ (raw = <<>> \/ StripsToNothing(raw)) => normalized = Unknown

\* C11 as amended: normalize_for_nvd returns the empty text for the empty name
\* and for no other name; a non-empty name of which nothing is left after
\* the stripping steps gives "unknown".
C11_EmptyOnlyForEmpty ==
    normPc # "raw" =>
        /\ normalized = <<>> <=> raw = <<>>
        /\ StripsToNothing(raw) => normalized = Unknown

\* "x64 " was normalized: nothing is left of it, and the result is the sentinel
C11_Witness ==
    /\ normPc # "raw"
    /\ raw = <<"x", "6", "4", " ">>
    /\ normalized = Unknown

\* C12: get_cpe_keywords returns at most 3 keywords, and no two of them are
\* equal when compared in lower case.
C12_AtMostThreeDistinct ==
    normPc = "keywords" =>
        /\ Len(selected) <= 3
        /\ \A i \in DOMAIN selected, j \in DOMAIN selected :
               i # j => Lower(selected[i]) # Lower(selected[j])

\* "A java": three keywords, the name in lower case, its first word and the alias
C12_Witness ==
    /\ normPc = "keywords"
    /\ raw = <<"A", " ", "j", "a", "v", "a">>
    /\ selected = <<<<"a", " ", "j", "a", "v", "a">>, <<"a">>, Jre>>

\* C13 as stated: for every name, the empty name included, get_cpe_keywords
\* returns at least one keyword and the first is normalize_for_nvd(name).
C13_FirstKeywordIsNormalized ==
    normPc = "keywords" => (Len(selected) >= 1 /\ selected[1] = normalized)

\* C13 as amended: for every non-empty name get_cpe_keywords returns at least
\* one keyword and the first is normalize_for_nvd(name); for the empty name
\* it returns no keyword.
C13_FirstKeywordUnlessEmpty ==
    normPc = "keywords" =>
        IF raw = <<>> THEN selected = <<>>
        ELSE Len(selected) >= 1 /\ selected[1] = normalized

\* "ab (Git2)": the normalized name first, then the alias
C13_Witness ==
    /\ normPc = "keywords"
    /\ raw = GitRaw
    /\ normalized = <<"a", "b">>
    /\ selected = <<<<"a", "b">>, GitScm>>

C15_FreshIffExactKeyFresh ==
    \A t \in Threads :
        pc[t] \in {"hit", "miss"} =>
            (pc[t] = "hit" <=>
                \E r \in cache : /\ r.package_name = frame[t].package_name
                                 /\ r.version = VersionOrEmpty(frame[t].version)
                                 /\ now - r.queried_at < TTL)

\* C16: a call all of whose keywords were answered with an empty page returns
\* cves_found = 0 and vulnerable = false and has written the row of its key
\* with no match; a later call that finds that result valid is served from
\* the cache with cves_found = 0 and vulnerable = false.
C16_ZeroMatchCached ==
    \A t \in Threads :
        /\ (pc[t] = "done" /\ obs[t].requests > 0 /\ ~obs[t].failed
                /\ obs[t].last.page = <<>>) =>
               /\ obs[t].requests = Len(frame[t].keywords)
               /\ result[t].status = "ok"
               /\ result[t].cves_found = 0
               /\ ~result[t].vulnerable
               /\ obs[t].wrote
               /\ \E r \in cache : /\ r.package_name = frame[t].package_name
                                    /\ r.version = VersionOrEmpty(frame[t].version)
                                    /\ r.queried_at = now
                                    /\ r.cves_found = 0
        /\ (pc[t] = "done" /\ obs[t].expect.has /\ ~obs[t].expect.failed
                /\ obs[t].expect.cves = <<>>) =>
               /\ result[t].cached
               /\ obs[t].requests = 0
               /\ result[t].cves_found = 0
               /\ ~result[t].vulnerable

\* both keywords of "ab cd" were answered with an empty page, the row with
\* no match was written, and the next call for the key, less than 24 hours
\* later, was served from it
C16_Witness ==
    \E t \in Threads :
        /\ pc[t] = "done"
        /\ frame[t].package_name = NameA
        /\ obs[t].expect.has
        /\ ~obs[t].expect.failed
        /\ obs[t].expect.cves = <<>>
        /\ now - obs[t].expect.at = TTL - 1
        /\ result[t].cached
        /\ result[t].cves_found = 0
        /\ ~result[t].vulnerable

\* C17: a call for a name with no keyword sends no request, returns no
\* record and writes no row.
C17_DegenerateNotCached ==
    \A t \in Threads :
        (pc[t] = "done" /\ KeywordsOf[frame[t].package_name] = <<>>) =>
            /\ obs[t].requests = 0
            /\ result[t].cves_found = 0
            /\ ~obs[t].wrote

\* C18: a call for a name that normalizes to "unknown" sends no request and
\* writes no row.
C18_UnknownNotQueried ==
    \A t \in Threads :
        (pc[t] \in {"store", "done"}
            /\ NormalizedOf[frame[t].package_name] = Unknown) =>
            /\ obs[t].requests = 0
            /\ ~obs[t].wrote

\* C19: after a request that ended in a RequestException, whatever its text,
\* the same keyword is not sent again: the next keyword is tried, or the
\* query is over.
C19_TransportErrorEndsKeyword ==
    \A t \in Threads :
        LET last == obs[t].last
        IN  last.kind \in {"error", "error429"} =>
                IF last.keyword_idx < Len(frame[t].keywords)
                THEN /\ pc[t] = "send"
                     /\ frame[t].keyword_idx = last.keyword_idx + 1
                     /\ frame[t].attempt = 0
                ELSE pc[t] \in {"store", "done"}

\* C20: a request that failed (an exception of the transport, or of reading
\* the body) counts as no record for its keyword: the query ends only after
\* its last keyword, and no exception leaves check_package because of it.
C20_FailureSkipsKeywordOnly ==
    \A t \in Threads :
        LET last == obs[t].last
        IN  (last.kind \in {"error", "error429", "crash"}
                /\ pc[t] \in {"store", "done"}) =>
                /\ last.keyword_idx = Len(frame[t].keywords)
                /\ frame[t].cves = <<>>
                /\ (pc[t] = "done" /\ obs[t].wrote) => result[t].status = "ok"

\* C21: a call that did not find its key fresh returns a result with
\* cached = false and the records its query found, whether or not the cache
\* write succeeded; it raises nothing.
C21_StorageFailureReturnsResult ==
    \A t \in Threads :
        (pc[t] = "done" /\ obs[t].requests > 0) =>
            /\ result[t].status = "ok"
            /\ ~result[t].cached
            /\ result[t].cves = frame[t].cves

\* C22: a batch is never aborted by the failure of one lookup: it ends with a
\* response, after check_package was called for every package with a name.
C22_BatchNeverAborts ==
    /\ scan.status # "aborted"
    /\ scan.status = "returned" => scan.checked = scan.named

\* the ids of records, in order
Ids(records) == [i \in DOMAIN records |-> records[i].id]

\* C23: in every row cves_found is the number of records stored in cve_data,
\* which is at most 50; the records stored are the first 50 found, in the order
\* of the response.
C23_CountMatchesCappedRecords ==
    /\ \A r \in cache :
           /\ r.cves_found = Len(JsonLoads(r.cve_data))
           /\ Len(JsonLoads(r.cve_data)) <= MaxResults
    /\ \A t \in Threads, r \in cache :
           (/\ pc[t] = "done" /\ obs[t].wrote
            /\ r.package_name = frame[t].package_name
            /\ r.version = VersionOrEmpty(frame[t].version)) =>
               /\ obs[t].last.page = BigPage =>
                      Ids(JsonLoads(r.cve_data)) = [i \in 1..MaxResults |-> ToString(i)]
               /\ obs[t].last.page = MixedPage =>
                      Ids(JsonLoads(r.cve_data)) = <<"CVE-1", "CVE-2", "CVE-0">>

\* a response of 51 records was stored as a row of 50
C23_Witness ==
    \E t \in Threads, r \in cache :
        /\ pc[t] = "done"
        /\ obs[t].wrote
        /\ obs[t].last.page = BigPage
        /\ r.package_name = frame[t].package_name
        /\ r.cves_found = MaxResults
        /\ Len(JsonLoads(r.cve_data)) = MaxResults

\* C24: the cache holds at most one row per (package_name, version); the row
\* a call has written is the only row of its key and holds the time, the
\* count, the highest score and the records of that call alone.
C24_OneRowPerKey ==
    /\ \A r \in cache, q \in cache :
           (r.package_name = q.package_name /\ r.version = q.version) => r = q
    /\ \A t \in Threads, r \in cache :
           (/\ pc[t] = "done" /\ obs[t].wrote
            /\ r.package_name = frame[t].package_name
            /\ r.version = VersionOrEmpty(frame[t].version)) =>
               /\ r.queried_at = now
               /\ r.cves_found = Len(frame[t].cves)
               /\ r.cvss_max = MaxCvss(frame[t].cves)
               /\ JsonLoads(r.cve_data) = frame[t].cves

\* the row ("ab cd", "1") of an earlier run, 24 hours old with one record,
\* was replaced by the row of a call that found two
C24_Witness ==
    \E t \in Threads :
        /\ pc[t] = "done"
        /\ obs[t].wrote
        /\ obs[t].stale
        /\ frame[t].package_name = NameA
        /\ frame[t].version = "1"
        /\ Len(frame[t].cves) = 2
        /\ \E r \in cache : r.package_name = NameA /\ r.version = "1" /\ r.cves_found = 2

\* C25: the records of a query hold each id once; of two records with the
\* same id in a response the first is kept.
C25_EachIdOnce ==
    \A t \in Threads :
        /\ \A i \in DOMAIN frame[t].cves, j \in DOMAIN frame[t].cves :
               i # j => frame[t].cves[i].id # frame[t].cves[j].id
        /\ (pc[t] \in {"store", "done"} /\ obs[t].last.kind = "ok"
                /\ obs[t].last.page = <<RawV1, RawV2, RawV1again>>) =>
               frame[t].cves = <<[id |-> "CVE-1", cvss |-> 9], [id |-> "CVE-2", cvss |-> 4]>>

\* the response with CVE-1 twice gave a result of two records
C25_Witness ==
    \E t \in Threads :
        /\ pc[t] = "done"
        /\ obs[t].last.page = <<RawV1, RawV2, RawV1again>>
        /\ result[t].cves_found = 2
        /\ result[t].cves[1] = [id |-> "CVE-1", cvss |-> 9]

\* C26: a record with scores under both schemes gets the version-3 score
\* (CVE-1: 9, not 5), a record with a version-2 score only gets that one
\* (CVE-2: 4), and a record with neither gets 0 (CVE-0).
C26_SeverityPrefersV3 ==
    \A t \in Threads :
        (obs[t].last.kind = "ok" /\ obs[t].last.page = MixedPage) =>
            \A i \in DOMAIN frame[t].cves :
                /\ frame[t].cves[i].id = "CVE-1" => frame[t].cves[i].cvss = 9
                /\ frame[t].cves[i].id = "CVE-2" => frame[t].cves[i].cvss = 4
                /\ frame[t].cves[i].id = "CVE-0" => frame[t].cves[i].cvss = 0

\* the response with the three shapes of record was parsed and returned
C26_Witness ==
    \E t \in Threads :
        /\ pc[t] = "done"
        /\ obs[t].last.page = MixedPage
        /\ result[t].cves_found = 3
        /\ result[t].cvss_max = 9
        /\ result[t].cves[3] = [id |-> "CVE-0", cvss |-> 0]

\* C27: over a call that is not served from the cache api_calls grows by the
\* number of keywords the call sent to the source, 0 when it sent none.
C27_ApiCallsPerKeyword ==
    \A t \in Threads :
        (pc[t] = "done" /\ ~result[t].cached) =>
            nvd_stats.api_calls - obs[t].before.stats.api_calls =
                (IF obs[t].requests = 0 THEN 0 ELSE obs[t].last.keyword_idx)

\* C28: over a call served from the cache total_queries and cached_hits grow
\* by one each, and api_calls, total_cves_found, the rows of the cache and
\* the time of the rate limiter stay as they were.
C28_CachedCheckFrame ==
    \A t \in Threads :
        (pc[t] = "done" /\ result[t].cached) =>
            /\ nvd_stats.total_queries = obs[t].before.stats.total_queries + 1
            /\ nvd_stats.cached_hits = obs[t].before.stats.cached_hits + 1
            /\ nvd_stats.api_calls = obs[t].before.stats.api_calls
            /\ nvd_stats.total_cves_found = obs[t].before.stats.total_cves_found
            /\ cache = obs[t].before.rows
            /\ last_nvd_request_time = obs[t].before.last

\* C29: from the deletion of a rename of X to Y, X # Y, until the rescan
\* returns, the cache holds no row of X and the rows of names other than X
\* and Y are the ones it held before; when the rescan is over check_package(Y)
\* has run once, after the deletion, and has returned a result.
C29_RenameInvalidates ==
    \A t \in Threads :
        (obs[t].renamed.has /\ obs[t].renamed.original_name # frame[t].package_name) =>
            /\ \A r \in cache : r.package_name # obs[t].renamed.original_name
            /\ {r \in cache : r.package_name \notin
                    {obs[t].renamed.original_name, frame[t].package_name}}
                = obs[t].renamed.others
            /\ pc[t] = "done" =>
                   /\ result[t].status = "ok"
                   /\ frame[t].version = NoneVersion
                   /\ nvd_stats.total_queries = obs[t].before.stats.total_queries + 1
                   /\ \A r \in obs[t].before.rows :
                          r.package_name # obs[t].renamed.original_name

\* "ab cd" was renamed to "x64": its two rows are gone, the row of "a java"
\* is as before, and "x64" was queried and stored
C29_Witness ==
    \E t \in Threads :
        /\ pc[t] = "done"
        /\ obs[t].renamed.has
        /\ obs[t].renamed.original_name = NameA
        /\ obs[t].renamed.deleted = 2
        /\ frame[t].package_name = NameB
        /\ obs[t].renamed.others # {}
        /\ obs[t].wrote
        /\ \E r \in cache : r.package_name = NameJ

\* C30: whatever the interleaving of cache writes and reads of two callers,
\* a call served from the cache returns a count that is the number of the
\* records it returns, both read from one row.
C30_ReadersSeeWholeRows ==
    \A t \in Threads :
        (pc[t] = "done" /\ result[t].cached) =>
            /\ result[t].cves_found = Len(result[t].cves)
            /\ result[t].cvss_max = MaxCvss(result[t].cves)

\* one caller was served the row of one record while the other caller, which
\* wrote a row of that key, has not returned yet
C30_Witness ==
    \E t \in Threads, u \in Threads :
        /\ t # u
        /\ pc[t] = "done"
        /\ result[t].cached
        /\ result[t].cves_found = 1
        /\ Len(result[t].cves) = 1
        /\ pc[u] = "done"
        /\ obs[u].wrote
        /\ frame[u].package_name = frame[t].package_name

\* C31: each counter of nvd_stats (total_queries, cached_hits, api_calls,
\* total_cves_found) never decreases: under every interleaving of concurrent
\* calls of check_package no step leaves a counter smaller than it was.
C31_CountersMonotone ==
    [][\A k \in DOMAIN nvd_stats : nvd_stats'[k] >= nvd_stats[k]]_vars

\* C32: a forced check of (package_name, version) ignores the cache: whatever
\* rows the cache held and whatever the version, the absent one included, the
\* call of check_package it makes is not answered from the cache (it counts
\* as a lookup of the source) and its result has cached = false.
C32_ForceCheckIgnoresCache ==
    \A t \in Threads :
        (pc[t] = "done" /\ frame[t].op = "force") =>
            /\ result[t].status = "ok"
            /\ ~result[t].cached
            /\ nvd_stats.api_calls = obs[t].before.stats.api_calls + 1

\* C33: with one caller, wait_for_rate_limit returns only when at least
\* NVD_REQUEST_DELAY (5 s) have passed since the slot before was granted, and
\* it sets last_nvd_request_time to the time of the grant, after the sleep if
\* there was one; so two grants in a row are at least 5 s apart, and a caller
\* that asks 5 s or more after the grant before is not put to sleep.
C33_SlotsSpaced ==
    \A t \in Threads :
        /\ pc[t] = "rl_sleep" =>
              /\ now - last_nvd_request_time < NVD_REQUEST_DELAY
              /\ frame[t].wake = last_nvd_request_time + NVD_REQUEST_DELAY
        /\ pc[t] = "rl_stamp" => now - last_nvd_request_time >= NVD_REQUEST_DELAY
        /\ obs[t].slots > 0 =>
              /\ obs[t].granted - obs[t].before.last >= NVD_REQUEST_DELAY
              /\ last_nvd_request_time = obs[t].granted

\* a second slot that was granted after a sleep, 5 s after the first
C33_Witness ==
    \E t \in Threads :
        /\ obs[t].slots = 1
        /\ obs[t].before.last > 0
        /\ obs[t].granted = obs[t].before.last + NVD_REQUEST_DELAY

\* C34: every call of check_package ends after a bounded number of requests:
\* at most 3 keywords are sent and at most 3 attempts are made for a keyword,
\* so at most 9 requests per call, whatever the source answers (429 every
\* time and failure every time included). The requests sent plus the requests
\* the loops may still send never exceed 9, and each request uses one up.
C34_RequestsBounded ==
    \A t \in Threads :
        LET f == frame[t]
            left == CASE pc[t] \in {"send", "backoff"} ->
                             3 * (Len(f.keywords) - f.keyword_idx) + (3 - f.attempt)
                      [] pc[t] \in {"store", "done", "idle"} -> 0
                      [] OTHER -> 9
        IN  /\ Len(f.keywords) <= 3
            /\ f.keyword_idx <= 3
            /\ f.attempt < 3
            /\ obs[t].requests + left <= 9

\* a call that sent 9 requests, three for each of three keywords
C34_Witness ==
    \E t \in Threads :
        /\ pc[t] = "done"
        /\ obs[t].requests = 9
        /\ obs[t].last.keyword_idx = 3
        /\ obs[t].last.attempt = 2

C36_ResultConsistent ==
    \A t \in Threads :
        (pc[t] = "done" /\ result[t].status = "ok") =>
            LET r == result[t]
            IN  /\ r.cves_found = Len(r.cves)
                /\ r.vulnerable = (r.cves_found > 0)
                /\ \A i \in 1..Len(r.cves) : r.cves[i].cvss <= r.cvss_max
                /\ IF r.cves = <<>>
                   THEN r.cvss_max = 0
                   ELSE \E i \in 1..Len(r.cves) : r.cves[i].cvss = r.cvss_max

\* a result served from the cache whose records have different scores, the
\* highest not the first
C36_Witness ==
    \E t \in Threads :
        /\ pc[t] = "done"
        /\ result[t].cached
        /\ Len(result[t].cves) > 1
        /\ result[t].cves[1].cvss < result[t].cvss_max

\* C37: a call of check_package that found its key fresh always returns a
\* result, also when another caller's forced check deletes the row between
\* the freshness test (line 462) and the read of the row (line 463): the read
\* finds a row, and the call does not end in an exception.
C37_FreshHitAlwaysAnswered ==
    \A t \in Threads :
        /\ pc[t] = "count" => frame[t].cached_result # <<>>
        /\ pc[t] = "done" => result[t].status = "ok"

\* C38: after any sequence of calls of check_package that have returned, one
\* after the other, total_queries = cached_hits + api_calls: each call was
\* counted once in total_queries and once as a cache hit or as a lookup of the
\* source, never as both.
C38_QueriesAreHitsPlusCalls ==
    /\ (\A t \in Threads : pc[t] = "idle") =>
          nvd_stats.total_queries = nvd_stats.cached_hits + nvd_stats.api_calls
    /\ \A t \in Threads :
          pc[t] = "done" =>
              LET was  == obs[t].before.stats
                  hit  == IF result[t].cached THEN 1 ELSE 0
              IN  /\ nvd_stats.total_queries = was.total_queries + 1
                  /\ nvd_stats.cached_hits = was.cached_hits + hit
                  /\ nvd_stats.api_calls = was.api_calls + (1 - hit)

\* two calls have returned, one answered from the cache and one by a lookup
C38_Witness ==
    /\ \A t \in Threads : pc[t] = "idle"
    /\ nvd_stats.total_queries = 2
    /\ nvd_stats.cached_hits = 1
    /\ nvd_stats.api_calls = 1

\* C39: each admin page (/dashboard, /hosts, /packages, /software-management)
\* is served only to a request with a valid session: when the page handler
\* ran, the request carried the id of a session that a successful login
\* created, that was not logged out and that was not older than 12 hours;
\* every other request is redirected to /login.
C39_AdminPagesNeedSession ==
    (/\ response.page
     /\ response.path \in {Routes.dashboard, Routes.hosts, Routes.packages,
                           Routes.software_management}) =>
        \E s \in issued : /\ s.session_id = response.cookie
                          /\ ~s.logged_out
                          /\ response.at - s.created_at <= SessionLifetime

====
